---- MODULE Spec2Model ----
(***************************************************************************)
(* Travel planner (src/app.py): a Streamlit page with two text inputs and  *)
(* one button.  A button press with both fields filled asks the hosted     *)
(* model for a markdown table (get_travel_recommendations), shows the      *)
(* reply, and tabulates it into a data frame, two bar charts and a CSV     *)
(* download inside one try/except block.                                    *)
(*                                                                         *)
(* Text is modelled as a sequence of one-character strings, so that        *)
(* str.strip, str.split, slicing, the regular-expression replacement and   *)
(* the numeric parse are computed character by character.                  *)
(***************************************************************************)
EXTENDS Naturals, Sequences, FiniteSets, TLC

VARIABLES
    source,           \* st.text_input "Enter Source City"
    destination,      \* st.text_input "Enter Destination City"
    screen,           \* elements the button handler emitted in the current script run, in order
    recommendations,  \* the handler's local: what get_travel_recommendations returned
    table_data,       \* the handler's local: the retained lines
    rows,             \* the handler's local: the fields of each retained line
    df,               \* the handler's local: the data frame (built or not)
    lastCall,         \* what travel_chain.run did in the current script run
    calls,            \* outbound model calls issued so far
    presses,          \* button presses so far
    validPresses,     \* button presses with both fields non-empty so far
    unhandled         \* an exception left the handler (the script run crashed)

vars ==
    <<source, destination, screen, recommendations, table_data, rows, df,
      lastCall, calls, presses, validPresses, unhandled>>

----------------------------------------------------------------------------
(* Bounds of the model. *)

\* button presses explored in the page specification
MaxPresses ==
    2

\* lines of an arbitrary reply in the tabulator specification
MaxLines ==
    4

\* lines between header/separator and trailing prose in a framed reply
MaxBody ==
    2

\* characters of an arbitrary Price cell in the coercion specification
MaxCellLen ==
    3

----------------------------------------------------------------------------
(* Python str and list operations used by the handler. *)

\* characters str.strip() removes (the ones that occur in the modelled text)
Whitespace ==
    {" ", "\n"}

\* ASCII decimal digits
Digits ==
    {"0", "1", "2", "3", "4", "5", "6", "7", "8", "9"}

DigitVal(c) ==
    CASE c = "0" -> 0 [] c = "1" -> 1 [] c = "2" -> 2 [] c = "3" -> 3
      [] c = "4" -> 4 [] c = "5" -> 5 [] c = "6" -> 6 [] c = "7" -> 7
      [] c = "8" -> 8 [] c = "9" -> 9

RECURSIVE LStrip(_)
LStrip(s) ==
    IF s # <<>> /\ Head(s) \in Whitespace THEN LStrip(Tail(s)) ELSE s

RECURSIVE RStrip(_)
RStrip(s) ==
    IF s # <<>> /\ s[Len(s)] \in Whitespace
    THEN RStrip(SubSeq(s, 1, Len(s) - 1))
    ELSE s

\* str.strip()
Strip(s) ==
    RStrip(LStrip(s))

\* the position of the first sep in s, or 0 when s has none
Find(s, sep) ==
    IF \E i \in 1..Len(s) : s[i] = sep
    THEN CHOOSE i \in 1..Len(s) : s[i] = sep /\ \A j \in 1..(i - 1) : s[j] # sep
    ELSE 0

RECURSIVE Split(_, _)
\* str.split(sep) for a one-character separator: the pieces between
\* consecutive separators, never an empty list
Split(s, sep) ==
    LET i == Find(s, sep)
    IN  IF i = 0 THEN <<s>>
        ELSE <<SubSeq(s, 1, i - 1)>> \o Split(SubSeq(s, i + 1, Len(s)), sep)

\* list[a:-1] for a >= 0: drop the first a items and the last one
SliceToLast(l, a) ==
    IF Len(l) - 1 >= a + 1 THEN SubSeq(l, a + 1, Len(l) - 1) ELSE <<>>

RECURSIVE Join(_)
\* "\n".join(lines)
Join(lines) ==
    IF lines = <<>> THEN <<>>
    ELSE IF Len(lines) = 1 THEN lines[1]
    ELSE lines[1] \o <<"\n">> \o Join(Tail(lines))

----------------------------------------------------------------------------
(* pandas operations used by the handler. *)

\* the column names passed to pd.DataFrame
Columns ==
    <<"Travel Type", "Price (Estimated)", "Time (Estimated)", "Description",
      "Comfort Level", "Directness">>

\* a data-frame cell holding a str
StrCell(s) ==
    [none |-> FALSE, s |-> s]

\* a data-frame cell holding None (padding of a short row)
NoneCell ==
    [none |-> TRUE, s |-> <<>>]

\* a numeric value mant / 10^scale
Num(mant, scale) ==
    [nan |-> FALSE, mant |-> mant, scale |-> scale]

\* the missing value (NaN)
NaN ==
    [nan |-> TRUE, mant |-> 0, scale |-> 0]

RECURSIVE MaxLen(_)
MaxLen(rs) ==
    IF rs = <<>> THEN 0
    ELSE LET m == MaxLen(Tail(rs))
         IN  IF Len(Head(rs)) > m THEN Len(Head(rs)) ELSE m

\* one row of the object array: the fields as str cells, padded with None
PadRow(r, width) ==
    [j \in 1..width |-> IF j <= Len(r) THEN StrCell(r[j]) ELSE NoneCell]

\* pd.DataFrame(rows, columns=columns) for a list of lists of str: the width of
\* the data is that of its longest row, shorter rows are padded with None, and a
\* width other than the number of columns raises ValueError.  An empty list
\* gives an empty frame with the columns.
DataFrame(rs, columns) ==
    IF rs = <<>> THEN [built |-> TRUE, data |-> <<>>]
    ELSE IF MaxLen(rs) # Len(columns) THEN [built |-> FALSE, data |-> <<>>]
    ELSE [built |-> TRUE,
          data |-> [i \in 1..Len(rs) |-> PadRow(rs[i], Len(columns))]]

\* a frame that was not built
NoFrame ==
    [built |-> FALSE, data |-> <<>>]

\* the pattern [^\d]+, which removes the decimal point too
IsNumericChar_DigitsOnly(c) ==
    c \in Digits

\* the characters the pattern [^\d\.]+ leaves in place
IsNumericChar(c) ==
    c \in Digits \/ c = "."

\* Series.str.replace(r'[^\d\.]+', '', regex=True) on one cell; None stays missing
StrReplace(cell) ==
    IF cell.none THEN NoneCell ELSE StrCell(SelectSeq(cell.s, IsNumericChar))

RECURSIVE Normalize(_, _)
\* the same number without trailing zeros after the decimal point
Normalize(mant, scale) ==
    IF scale > 0 /\ mant % 10 = 0 THEN Normalize(mant \div 10, scale - 1)
    ELSE Num(mant, scale)

RECURSIVE ParseFrom(_, _, _, _, _, _)
\* the float parse: digits, at most one decimal point, at least one digit, and
\* nothing else up to the end of the text
ParseFrom(s, i, mant, scale, seenDot, nDigits) ==
    IF i > Len(s) THEN (IF nDigits = 0 THEN NaN ELSE Normalize(mant, scale))
    ELSE IF s[i] \in Digits
         THEN ParseFrom(s, i + 1, mant * 10 + DigitVal(s[i]),
                        IF seenDot THEN scale + 1 ELSE scale, seenDot, nDigits + 1)
    ELSE IF s[i] = "." /\ ~seenDot
         THEN ParseFrom(s, i + 1, mant, scale, TRUE, nDigits)
    ELSE NaN

\* pd.to_numeric(..., errors='coerce') on one cell
ToNumeric(cell) ==
    IF cell.none THEN NaN ELSE ParseFrom(cell.s, 1, 0, 0, FALSE, 0)

\* lines 74-75 on one cell
Coerce(cell) ==
    ToNumeric(StrReplace(cell))

----------------------------------------------------------------------------
(* Text constants. *)

\* the prefix of the f-string of line 51
ErrPrefix ==
    <<"A", "n", " ", "e", "r", "r", "o", "r", " ", "o", "c", "c", "u", "r", "r", "e", "d", ":", " ">>

\* str(KeyError('text')): the cause when the reply has no "text" entry
KeyErrorText ==
    <<"'", "t", "e", "x", "t", "'">>

\* str(e) of a failed model call
QuotaCause ==
    <<"4", "2", "9", " ", "q", "u", "o", "t", "a">>

\* a header line of the reply, as the prompt asks for it
Hdr ==
    <<"|", " ", "T", "r", "a", "v", "e", "l", " ", "T", "y", "p", "e", " ", "|", " ", "P", "r", "i", "c", "e", " ", "|", " ", "T", "i", "m", "e", " ", "|", " ", "D", "e", "s", "c", "r", "i", "p", "t", "i", "o", "n", " ", "|", " ", "C", "o", "m", "f", "o", "r", "t", " ", "|", " ", "D", "i", "r", "e", "c", "t", "n", "e", "s", "s", " ", "|">>

\* the separator line of the reply
SepLine ==
    <<"|", "-", "-", "-", "|", "-", "-", "-", "|", "-", "-", "-", "|", "-", "-", "-", "|", "-", "-", "-", "|", "-", "-", "-", "|">>

\* the five rows of the reply, one per travel mode of the prompt
RowCab ==
    <<"|", " ", "C", "a", "b", "/", "T", "a", "x", "i", " ", "|", " ", "₹", "1", "2", "0", "0", " ", "|", " ", "2", ".", "5", " ", "h", "r", "s", " ", "|", " ", "d", "o", "o", "r", " ", "|", " ", "4", " ", "|", " ", "D", "i", "r", "e", "c", "t", " ", "|">>

RowTrain ==
    <<"|", " ", "T", "r", "a", "i", "n", " ", "|", " ", "₹", "3", "0", "0", " ", "|", " ", "3", " ", "h", "r", "s", " ", "|", " ", "r", "a", "i", "l", " ", "|", " ", "3", " ", "|", " ", "D", "i", "r", "e", "c", "t", " ", "|">>

RowBus ==
    <<"|", " ", "B", "u", "s", " ", "|", " ", "₹", "2", "5", "0", " ", "|", " ", "4", ".", "5", " ", "h", "r", "s", " ", "|", " ", "r", "o", "a", "d", " ", "|", " ", "2", " ", "|", " ", "I", "n", "d", "i", "r", "e", "c", "t", " ", "|">>

RowFlight ==
    <<"|", " ", "F", "l", "i", "g", "h", "t", " ", "|", " ", "N", "/", "A", " ", "|", " ", "N", "/", "A", " ", "|", " ", "n", "o", "n", "e", " ", "|", " ", "5", " ", "|", " ", "D", "i", "r", "e", "c", "t", " ", "|">>

RowOla ==
    <<"|", " ", "O", "l", "a", "/", "U", "b", "e", "r", " ", "|", " ", "₹", "1", "5", "0", "0", " ", "|", " ", "2", ".", "5", " ", "h", "r", "s", " ", "|", " ", "a", "p", "p", " ", "|", " ", "4", " ", "|", " ", "D", "i", "r", "e", "c", "t", " ", "|">>

\* a row with too few bar-delimited fields
RowShort ==
    <<"|", " ", "B", "u", "s", " ", "|", " ", "₹", "2", "5", "0", " ", "|">>

\* a row with too many bar-delimited fields
RowLong ==
    <<"|", " ", "B", "u", "s", " ", "|", " ", "₹", "2", "5", "0", " ", "|", " ", "4", ".", "5", " ", "h", "r", "s", " ", "|", " ", "r", "o", "a", "d", " ", "|", " ", "2", " ", "|", " ", "I", "n", "d", "i", "r", "e", "c", "t", " ", "|", " ", "e", "x", "t", "r", "a", " ", "|">>

\* a line of prose after the table
Prose ==
    <<"N", "o", "t", "e", ":", " ", "p", "r", "i", "c", "e", "s", " ", "a", "r", "e", " ", "e", "s", "t", "i", "m", "a", "t", "e", "s", ".">>

\* Price and Time cells
CellRupee ==
    <<"₹", "1", "2", "0", "0">>

CellNA ==
    <<"N", "/", "A">>

CellHrs ==
    <<"2", ".", "5", " ", "h", "r", "s">>

\* the start and the end of a row whose Price and Time cells vary
RowPre ==
    <<"|", " ", "C", "a", "b", "/", "T", "a", "x", "i", " ", "|">>

RowPost ==
    <<"|", " ", "d", "o", "o", "r", " ", "|", " ", "4", " ", "|", " ", "D", "i", "r", "e", "c", "t", " ", "|">>

----------------------------------------------------------------------------
(* What the hosted model can answer, and what the page can be given. *)

\* values of the two text inputs ("" is the initial value of st.text_input)
Cities ==
    {"", "Mumbai", "Pune"}

\* the outcome of travel_chain.run: it raises, returns a str, returns a mapping
\* with a "text" entry, or returns a mapping without one
Raises(cause) ==
    [kind |-> "raise", text |-> <<>>, cause |-> cause]

ReturnsStr(text) ==
    [kind |-> "str", text |-> text, cause |-> <<>>]

ReturnsDict(text) ==
    [kind |-> "dict", text |-> text, cause |-> <<>>]

ReturnsDictNoText ==
    [kind |-> "dict_notext", text |-> <<>>, cause |-> <<>>]

\* no call was made in the current script run
NoCall ==
    [kind |-> "none", text |-> <<>>, cause |-> <<>>]

\* header, separator and the five rows the prompt asks for
Table5 ==
    <<Hdr, SepLine, RowCab, RowTrain, RowBus, RowFlight, RowOla>>

\* the well-formed five-row replies: the table alone, the table and a trailing
\* blank line, the table and a trailing line of prose
WellFormed5 ==
    {Join(Table5), Join(Table5) \o <<"\n">>, Join(Table5 \o <<Prose>>)}

\* outcomes of the model call in the page specification
SvcOutcomes ==
    {Raises(QuotaCause), ReturnsDictNoText, ReturnsDict(Join(Table5 \o <<Prose>>)),
     ReturnsStr(<<>>),
     ReturnsStr(Join(<<Hdr, SepLine, RowCab, RowShort, Prose>>)),
     ReturnsStr(Join(<<Hdr, SepLine, RowLong, Prose>>))}
    \cup {ReturnsStr(t) : t \in WellFormed5}

\* lines an arbitrary reply is made of
LineKinds ==
    {Hdr, RowCab, RowShort, <<>>, Prose}

\* every reply of at most MaxLines lines over LineKinds
ShortReplies ==
    {Join(ls) : ls \in UNION {[1..n -> LineKinds] : n \in 0..MaxLines}}

\* lines that can stand between the separator and the trailing prose
BodyKinds ==
    {RowCab, RowTrain, RowShort, RowLong, <<>>}

\* header, separator, at most MaxBody lines over BodyKinds, trailing prose
FramedReplies ==
    {Join(<<Hdr, SepLine>> \o b \o <<Prose>>) :
        b \in UNION {[1..n -> BodyKinds] : n \in 0..MaxBody}}

\* the well-formed replies followed by trailing whitespace or blank lines
TrailingReplies ==
    {Join(Table5) \o t :
        t \in {<<" ">>, <<"\n", "\n">>, <<" ", "\n", " ", "\n">>,
               <<"\n", "\n">> \o Prose, <<"\n">> \o Prose \o <<"\n">>}}

\* outcomes of the model call in the tabulator specification
TabOutcomes ==
    {ReturnsStr(t) :
        t \in ShortReplies \cup FramedReplies \cup WellFormed5 \cup TrailingReplies}

\* characters an arbitrary cell is made of
CellChars ==
    {"0", "2", ".", "h", " "}

\* every cell of at most MaxCellLen characters, and the cells of the examples
CoerceCells ==
    UNION {[1..n -> CellChars] : n \in 0..MaxCellLen}
    \cup {CellRupee, CellNA, CellHrs}

\* a one-row reply with the given Price and Time cells
CellReply(price, time) ==
    Join(<<Hdr, SepLine,
           RowPre \o price \o <<"|">> \o time \o RowPost,
           Prose>>)

\* outcomes of the model call in the coercion specification
CoerceOutcomes ==
    {ReturnsStr(CellReply(p, t)) : p \in CoerceCells, t \in {CellRupee, CellNA, CellHrs}}

\* what can go wrong in the rendering steps of the try block, which the
\* except clause of line 92 covers ("Error processing data or creating charts")
Faults ==
    {"none", "fig_price", "fig_time", "csv"}

----------------------------------------------------------------------------
(* The program. *)

\* get_travel_recommendations without its try/except: a failure propagates
get_travel_recommendations_NoTry(src, dst, outcome) ==
    CASE outcome.kind = "str" ->
            [result |-> outcome.text, calls |-> 1, propagated |-> FALSE]
      [] outcome.kind = "dict" ->
            [result |-> outcome.text, calls |-> 1, propagated |-> FALSE]
      [] outcome.kind = "dict_notext" ->
            [result |-> <<>>, calls |-> 1, propagated |-> TRUE]
      [] outcome.kind = "raise" ->
            [result |-> <<>>, calls |-> 1, propagated |-> TRUE]

\* get_travel_recommendations calling the model a second time after a failure
get_travel_recommendations_Retry(src, dst, outcome) ==
    CASE outcome.kind = "str" ->
            [result |-> outcome.text, calls |-> 1, propagated |-> FALSE]
      [] outcome.kind = "dict" ->
            [result |-> outcome.text, calls |-> 1, propagated |-> FALSE]
      [] outcome.kind = "dict_notext" ->
            [result |-> ErrPrefix \o KeyErrorText, calls |-> 1, propagated |-> FALSE]
      [] outcome.kind = "raise" ->
            [result |-> ErrPrefix \o outcome.cause, calls |-> 2, propagated |-> FALSE]

\* get_travel_recommendations: the reply text, or the error string; calls is the
\* number of outbound calls made, propagated whether an exception left the function
get_travel_recommendations(src, dst, outcome) ==
    CASE outcome.kind = "str" ->
            [result |-> outcome.text, calls |-> 1, propagated |-> FALSE]
      [] outcome.kind = "dict" ->
            [result |-> outcome.text, calls |-> 1, propagated |-> FALSE]
      [] outcome.kind = "dict_notext" ->
            [result |-> ErrPrefix \o KeyErrorText, calls |-> 1, propagated |-> FALSE]
      [] outcome.kind = "raise" ->
            [result |-> ErrPrefix \o outcome.cause, calls |-> 1, propagated |-> FALSE]

\* an element on the page
Elem(kind, msg, body, x, y) ==
    [kind |-> kind, msg |-> msg, body |-> body, x |-> x, y |-> y]

\* st.write of a fixed text
WriteMsg(msg) ==
    Elem("write", msg, <<>>, <<>>, <<>>)

\* st.write of line 62, with the two cities it names
WriteGenerating(src, dst) ==
    Elem("write", "Generating travel options", <<>>, <<src, dst>>, <<>>)

\* st.write(recommendations)
WriteText(text) ==
    Elem("write", "recommendations", text, <<>>, <<>>)

\* st.error of line 96
ValidationError ==
    Elem("error", "Please enter both source and destination cities.", <<>>, <<>>, <<>>)

\* st.error of line 93, with the exception it reports
ProcessingError(exc) ==
    Elem("error", "Error processing data or creating charts", <<>>, <<exc>>, <<>>)

\* line 69 with the slice [2:], which keeps the final line
TableData_KeepLast(recs) ==
    LET l == Split(Strip(recs), "\n")
    IN  IF Len(l) >= 3 THEN SubSeq(l, 3, Len(l)) ELSE <<>>

\* line 69
TableData(recs) ==
    SliceToLast(Split(Strip(recs), "\n"), 2)

\* line 70
Rows(td) ==
    [i \in 1..Len(td) |-> SliceToLast(Split(Strip(td[i]), "|"), 1)]

\* lines 74-75: the Price and Time columns become numeric
CoerceFrame(frame) ==
    [built |-> frame.built,
     data |-> [i \in 1..Len(frame.data) |->
                [j \in 1..Len(Columns) |->
                    IF j \in {2, 3} THEN Coerce(frame.data[i][j])
                    ELSE frame.data[i][j]]]]

\* one column of a frame
Column(frame, j) ==
    [i \in 1..Len(frame.data) |-> frame.data[i][j]]

\* lines 78-80 and 83-85: a bar chart of Travel Type against a numeric column
Chart(title, frame, j) ==
    Elem("plotly_chart", title, <<>>, Column(frame, 1), Column(frame, j))

\* lines 88-90: the download button with the frame written under the column names
Download(frame) ==
    Elem("download_button", "travel_data.csv", <<>>, Columns, frame.data)

\* lines 78-93 once the frame is built: the elements emitted up to the step
\* that raises, then the error of the except clause
Render(frame, fault) ==
    IF fault = "fig_price" THEN <<ProcessingError(fault)>>
    ELSE IF fault = "fig_time"
         THEN <<Chart("Price Comparison", frame, 2), ProcessingError(fault)>>
    ELSE IF fault = "csv"
         THEN <<Chart("Price Comparison", frame, 2),
                Chart("Time Comparison", frame, 3), ProcessingError(fault)>>
    ELSE <<Chart("Price Comparison", frame, 2),
           Chart("Time Comparison", frame, 3), Download(frame)>>

\* lines 68-93: the try block and its except clause
Tabulate(recs, fault) ==
    LET td == TableData(recs)
        rs == Rows(td)
        frame == DataFrame(rs, Columns)
    IN  IF ~frame.built
        THEN [table_data |-> td, rows |-> rs, df |-> NoFrame,
              out |-> <<ProcessingError("ValueError")>>]
        ELSE LET coerced == CoerceFrame(frame)
             IN  [table_data |-> td, rows |-> rs, df |-> coerced,
                  out |-> Render(coerced, fault)]

\* line 61 with "or" for "and"
BothEntered_Either(src, dst) ==
    src # "" \/ dst # ""

\* line 61
BothEntered(src, dst) ==
    src # "" /\ dst # ""

\* lines 62-93 with the reply displayed after the tabulation
Page_TabulateFirst(src, dst, recs, out) ==
    <<WriteGenerating(src, dst)>> \o out
        \o <<WriteMsg("### Travel Recommendations:"), WriteText(recs)>>

\* lines 62-93: what a press with both fields entered puts on the page, the
\* progress line, the heading, the reply, then what the try block emitted
Page(src, dst, recs, out) ==
    <<WriteGenerating(src, dst),
      WriteMsg("### Travel Recommendations:"), WriteText(recs)>> \o out

Init ==
    /\ source = ""
    /\ destination = ""
    /\ screen = <<>>
    /\ recommendations = <<>>
    /\ table_data = <<>>
    /\ rows = <<>>
    /\ df = NoFrame
    /\ lastCall = NoCall
    /\ calls = 0
    /\ presses = 0
    /\ validPresses = 0
    /\ unhandled = FALSE

\* a script run in which the button is not pressed: the handler does not run
RerunWithoutPress ==
    /\ screen' = <<>>
    /\ recommendations' = <<>>
    /\ table_data' = <<>>
    /\ rows' = <<>>
    /\ df' = NoFrame
    /\ lastCall' = NoCall
    /\ unhandled' = FALSE
    /\ UNCHANGED <<calls, presses, validPresses>>

\* line 57: the user changes the source field
EnterSource ==
    \E s \in Cities :
        /\ s # source
        /\ source' = s
        /\ UNCHANGED destination
        /\ RerunWithoutPress

\* line 58: the user changes the destination field
EnterDestination ==
    \E d \in Cities :
        /\ d # destination
        /\ destination' = d
        /\ UNCHANGED source
        /\ RerunWithoutPress

\* lines 60-96: the user presses the button; the model answers with one of
\* outcomes, and the rendering steps meet one of Faults
Button(outcomes, limit) ==
    /\ presses < limit
    /\ presses' = presses + 1
    /\ UNCHANGED <<source, destination>>
    /\ IF BothEntered(source, destination)
       THEN \E o \in outcomes, f \in Faults :
                LET r == get_travel_recommendations(source, destination, o)
                    t == Tabulate(r.result, f)
                IN  /\ validPresses' = validPresses + 1
                    /\ calls' = calls + r.calls
                    /\ lastCall' = o
                    /\ IF r.propagated
                       THEN /\ unhandled' = TRUE
                            /\ screen' = <<WriteGenerating(source, destination)>>
                            /\ recommendations' = <<>>
                            /\ table_data' = <<>>
                            /\ rows' = <<>>
                            /\ df' = NoFrame
                       ELSE /\ unhandled' = FALSE
                            /\ recommendations' = r.result
                            /\ table_data' = t.table_data
                            /\ rows' = t.rows
                            /\ df' = t.df
                            /\ screen' = Page(source, destination, r.result, t.out)
       ELSE /\ screen' = <<ValidationError>>
            /\ recommendations' = <<>>
            /\ table_data' = <<>>
            /\ rows' = <<>>
            /\ df' = NoFrame
            /\ lastCall' = NoCall
            /\ unhandled' = FALSE
            /\ UNCHANGED <<calls, validPresses>>

\* the button of the page
Press ==
    Button(SvcOutcomes, MaxPresses)

Next ==
    EnterSource \/ EnterDestination \/ Press

\* the page: the fields are edited and the button is pressed, in any order
Spec ==
    Init /\ [][Next]_vars

\* both fields are filled in
InitFilled ==
    /\ source = "Mumbai"
    /\ destination = "Pune"
    /\ screen = <<>>
    /\ recommendations = <<>>
    /\ table_data = <<>>
    /\ rows = <<>>
    /\ df = NoFrame
    /\ lastCall = NoCall
    /\ calls = 0
    /\ presses = 0
    /\ validPresses = 0
    /\ unhandled = FALSE

\* one press of the button, the model answering with any reply of TabOutcomes
PressTab ==
    Button(TabOutcomes, 1)

\* the tabulator: the handler applied once to each reply
SpecTab ==
    InitFilled /\ [][PressTab]_vars

\* one press of the button, the model answering with a one-row table
PressCoerce ==
    Button(CoerceOutcomes, 1)

\* the coercion: the handler applied once to each Price and Time cell
SpecCoerce ==
    InitFilled /\ [][PressCoerce]_vars

----------------------------------------------------------------------------
(* Vocabulary of the properties. *)

\* the current script run is a button press with both fields entered
Submitted ==
    lastCall.kind # "none"

\* the positions of the screen holding an element of the given kind
Positions(kind) ==
    {i \in DOMAIN screen : screen[i].kind = kind}

\* the processing-error message of the try block is on the screen
ProcessingErrorShown ==
    \E i \in Positions("error") :
        screen[i].msg = "Error processing data or creating charts"

\* a chart or the CSV download is on the screen
ArtifactShown ==
    Positions("plotly_chart") # {} \/ Positions("download_button") # {}

\* a rendering step (chart or CSV) raised in the current script run
RenderFault ==
    \E i \in Positions("error") :
        screen[i].x # <<>> /\ screen[i].x[1] \in Faults

\* the number of occurrences of c in s
Count(s, c) ==
    Cardinality({i \in DOMAIN s : s[i] = c})

RECURSIVE Pow10(_)
Pow10(n) ==
    IF n = 0 THEN 1 ELSE 10 * Pow10(n - 1)

RECURSIVE DigitSum(_, _)
\* the first n digit characters of d read as a decimal numeral
DigitSum(d, n) ==
    IF n = 0 THEN 0 ELSE DigitVal(d[n]) * Pow10(Len(d) - n) + DigitSum(d, n - 1)

\* the digit characters of a raw cell, in order
DigitsOf(raw) ==
    SelectSeq(raw, LAMBDA c : c \in Digits)

\* the digit characters of a raw cell after its first decimal point
DigitsAfterPoint(raw) ==
    IF Count(raw, ".") = 0 THEN 0
    ELSE Len(DigitsOf(SubSeq(raw, Find(raw, ".") + 1, Len(raw))))

\* v is what the claim says the raw cell becomes: missing when the cell has no
\* digit or more than one decimal point, else the number its digits and its
\* decimal point spell
CoercedAsClaimed(raw, v) ==
    IF DigitsOf(raw) = <<>> \/ Count(raw, ".") > 1 THEN v.nan
    ELSE /\ ~v.nan
         /\ v.mant * Pow10(DigitsAfterPoint(raw))
              = DigitSum(DigitsOf(raw), Len(DigitsOf(raw))) * Pow10(v.scale)

----------------------------------------------------------------------------
(* C1.  For a well-formed 5-row table (header, separator, five rows, with or  *)
(* without a trailing line) the tabulator produces exactly 5 records, in the *)
(* order of the rows, and both charts have exactly 5 categories.             *)
(* Stated for the runs in which no rendering step raised.                    *)
C1_FiveRecords ==
    (Submitted /\ recommendations \in WellFormed5 /\ ~RenderFault) =>
        /\ df.built
        /\ Len(df.data) = 5
        /\ \A i \in 1..5 :
              i <= Len(df.data) => df.data[i][1] = StrCell(Rows(SubSeq(Table5, 3, 7))[i][1])
        /\ Cardinality(Positions("plotly_chart")) = 2
        /\ \A i \in Positions("plotly_chart") : Len(screen[i].x) = 5

(* C2.  A response with fewer than 3 lines takes the tabulation-failure path: *)
(* the processing-error message is shown, no chart or CSV is produced, and no *)
(* exception leaves the handler.  Stated for the runs in which no rendering   *)
(* step raised.                                                              *)
C2_TooFewLinesFail ==
    (Submitted /\ Len(Split(recommendations, "\n")) < 3 /\ ~RenderFault) =>
        /\ ProcessingErrorShown
        /\ ~ArtifactShown
        /\ ~unhandled

(* C3.  A press while the source or the destination is empty makes no model   *)
(* call, runs no tabulation, chart or CSV step, and shows the validation      *)
(* error.                                                                    *)
C3_NoCallOnEmptyField ==
    [][(presses' = presses + 1 /\ (source = "" \/ destination = "")) =>
          /\ calls' = calls
          /\ lastCall' = NoCall
          /\ screen' = <<ValidationError>>
          /\ table_data' = <<>>
          /\ rows' = <<>>
          /\ df' = NoFrame]_vars

\* a press with the destination empty has shown the validation error
C3_Witness ==
    /\ presses > 0
    /\ source # ""
    /\ destination = ""
    /\ screen = <<ValidationError>>
    /\ calls = 0

(* C4.  Whenever the try block fails, exactly one processing-error message is *)
(* shown and no chart and no CSV download is on the screen of that run.       *)
C4_ErrorExcludesArtifacts ==
    ProcessingErrorShown =>
        /\ Cardinality(Positions("error")) = 1
        /\ ~ArtifactShown

(* C5.  get_travel_recommendations never lets an exception reach its caller:  *)
(* a failed call gives "An error occurred: " followed by the cause, a         *)
(* successful one the raw reply text, and the result is always text.         *)
C5_NeverPropagates ==
    /\ ~unhandled
    /\ \A i \in DOMAIN recommendations : recommendations[i] \in STRING
    /\ lastCall.kind = "raise" => recommendations = ErrPrefix \o lastCall.cause
    /\ lastCall.kind = "dict_notext" => SubSeq(recommendations, 1, Len(ErrPrefix)) = ErrPrefix
    /\ lastCall.kind \in {"str", "dict"} => recommendations = lastCall.text

\* the model call failed and the handler went on with the error string
C5_Witness ==
    /\ lastCall.kind = "raise"
    /\ recommendations = ErrPrefix \o QuotaCause
    /\ screen # <<>>

(* C6.  Every Price and Time cell becomes the number spelt by its digits and  *)
(* its decimal point, or the missing value when what is left is no number     *)
(* (no digit, or more than one decimal point); the coercion raises nothing.   *)
(* "₹1200" gives 1200, "N/A" the missing value, "2.5 hrs" 2.5.                *)
C6_Coercion ==
    (Submitted /\ rows # <<>>) =>
        /\ df.built
        /\ ProcessingErrorShown => RenderFault
        /\ \A i \in DOMAIN rows : \A j \in {2, 3} :
              /\ CoercedAsClaimed(rows[i][j], df.data[i][j])
              /\ rows[i][j] = CellRupee => df.data[i][j] = Num(1200, 0)
              /\ rows[i][j] = CellNA => df.data[i][j] = NaN
              /\ rows[i][j] = CellHrs => df.data[i][j] = Num(25, 1)

\* a row with the Price "2.5 hrs" and the Time "N/A" has been coerced
C6_Witness ==
    /\ Submitted
    /\ Len(rows) = 1
    /\ rows[1][2] = CellHrs
    /\ rows[1][3] = CellNA
    /\ df.data[1][2] = Num(25, 1)
    /\ df.data[1][3] = NaN

(* C7.  Each press with both fields entered issues exactly one model call and *)
(* a failed call is not retried: the calls made are as many as the presses    *)
(* that had both fields entered.                                             *)
C7_OneCallPerValidPress ==
    /\ [](calls = validPresses)
    /\ [][presses' = presses + 1 =>
            calls' = calls + (IF source # "" /\ destination # "" THEN 1 ELSE 0)]_vars

\* two presses with both fields entered, the second call having failed
C7_Witness ==
    /\ validPresses = 2
    /\ calls = 2
    /\ lastCall.kind = "raise"

C9_NonSixFieldsFail ==
    (Submitted /\ ~RenderFault) =>
        /\ (\E i \in DOMAIN rows : Len(rows[i]) # 6) =>
              (ProcessingErrorShown /\ ~ArtifactShown)
        /\ \A k \in Positions("download_button") :
              \A i \in DOMAIN screen[k].y : \A j \in {1, 4, 5, 6} :
                  screen[k].y[i][j] = StrCell(rows[i][j])

(* C10.  On every press with both fields entered the returned string is shown *)
(* first and then tabulated exactly once, whether or not the generation       *)
(* failed: the outcome of the run is the CSV download or the processing       *)
(* error, as the try block decides on that same string.                      *)
C10_DisplayThenTabulate ==
    Submitted =>
        /\ Len(screen) >= 4
        /\ screen[3] = WriteText(recommendations)
        /\ \A i \in 1..3 : screen[i].kind = "write"
        /\ \A i \in 4..Len(screen) : screen[i].kind # "write"
        /\ table_data = SliceToLast(Split(Strip(screen[3].body), "\n"), 2)
        /\ Cardinality(Positions("download_button")
                       \cup {i \in Positions("error") :
                               screen[i].msg = "Error processing data or creating charts"}) = 1
        /\ screen[Len(screen)].kind \in {"download_button", "error"}

\* the generation failed, its error string was shown and then tabulated into
\* an empty frame, and the run ended with the charts and the CSV download
C10_Witness ==
    /\ lastCall.kind = "raise"
    /\ Len(screen) = 6
    /\ screen[3].body = ErrPrefix \o QuotaCause
    /\ screen[6].kind = "download_button"
    /\ df.built
    /\ df.data = <<>>

====
